---- MODULE Spec2Model ----
(***************************************************************************)
(* Battleship (src/main.rs): the Board type with place_ship, can_place,    *)
(* fire and game_over, the coordinate parser, and the game loop of main.   *)
(*                                                                         *)
(* The source fixes BOARD_SIZE = 10 and the fleet 2,3,4,5.  The model      *)
(* keeps every operation as written and scales the two sizes down:         *)
(* BOARD_SIZE and the number of ships are bounds of the model, and the     *)
(* fleet is the consecutive sizes 1..MaxShips.                             *)
(*                                                                         *)
(* Two specifications:                                                     *)
(*   Spec      one Board driven by any interleaving of place_ship(size),   *)
(*             fire(position) and game_over() calls;                       *)
(*   SpecGame  main: two boards, the fleet placed on each, the game loop.  *)
(***************************************************************************)
EXTENDS Integers, Sequences, FiniteSets

VARIABLES player_board, computer_board, pc, size, calls, won, shot, result,
          tally, last

vars == <<player_board, computer_board, pc, size, calls, won, shot, result,
          tally, last>>

----------------------------------------------------------------------------
(* Bounds of the model *)

\* side of the board (const BOARD_SIZE: usize = 10 in the source)
BOARD_SIZE == 2

\* number of ships main places on each board (4 in the source)
MaxShips == 2

\* number of place_ship calls explored on the single board of Spec
MaxCalls == 2

\* longest line of input text explored (without its newline)
MaxInputLen == 4

----------------------------------------------------------------------------
(* Types *)

CellState == {"Empty", "Ship", "Hit", "Miss"}

Orientation == {"Horizontal", "Vertical"}

Coord == 0 .. (BOARD_SIZE - 1)

\* struct Position { row, column }
Position(r, c) == [row |-> r, column |-> c]

\* what rng.gen_range(0..BOARD_SIZE) twice can produce
InBoundsPositions == {Position(r, c) : r \in Coord, c \in Coord}

NoPosition == Position(BOARD_SIZE, BOARD_SIZE)

\* the sizes main passes to place_ship, in order, scaled to the board
Fleet == [i \in 1 .. MaxShips |-> i]

RECURSIVE SumSeq(_)
SumSeq(s) == IF s = <<>> THEN 0 ELSE Head(s) + SumSeq(Tail(s))

FleetCells == SumSeq(Fleet)

----------------------------------------------------------------------------
(* impl Board *)

\* Board::new
new(board_visibility) ==
    [grid |-> [r \in Coord |-> [c \in Coord |-> "Empty"]],
     ships |-> <<>>,
     board_visibility |-> board_visibility]

\* can_place with its two bounds tests off by one
can_place_bounds_off_by_one(b, position, sz, orientation) ==
    IF orientation = "Horizontal"
    THEN IF position.column + sz >= BOARD_SIZE
         THEN FALSE
         ELSE \A i \in 0 .. (sz - 1) :
                  b.grid[position.row][position.column + i] = "Empty"
    ELSE IF position.row + sz >= BOARD_SIZE
         THEN FALSE
         ELSE \A i \in 0 .. (sz - 1) :
                  b.grid[position.row + i][position.column] = "Empty"

\* can_place whose horizontal loop tests the anchor cell on every iteration
can_place_horizontal_anchor_only(b, position, sz, orientation) ==
    IF orientation = "Horizontal"
    THEN IF position.column + sz > BOARD_SIZE
         THEN FALSE
         ELSE \A i \in 0 .. (sz - 1) :
                  b.grid[position.row][position.column] = "Empty"
    ELSE IF position.row + sz > BOARD_SIZE
         THEN FALSE
         ELSE \A i \in 0 .. (sz - 1) :
                  b.grid[position.row + i][position.column] = "Empty"

\* can_place with the occupancy loops left out
can_place_bounds_only(b, position, sz, orientation) ==
    IF orientation = "Horizontal"
    THEN position.column + sz <= BOARD_SIZE
    ELSE position.row + sz <= BOARD_SIZE

\* can_place whose vertical loop tests the anchor cell on every iteration
can_place_vertical_anchor_only(b, position, sz, orientation) ==
    IF orientation = "Horizontal"
    THEN IF position.column + sz > BOARD_SIZE
         THEN FALSE
         ELSE \A i \in 0 .. (sz - 1) :
                  b.grid[position.row][position.column + i] = "Empty"
    ELSE IF position.row + sz > BOARD_SIZE
         THEN FALSE
         ELSE \A i \in 0 .. (sz - 1) :
                  b.grid[position.row][position.column] = "Empty"

\* Board::can_place
can_place(b, position, sz, orientation) ==
    IF orientation = "Horizontal"
    THEN IF position.column + sz > BOARD_SIZE
         THEN FALSE
         ELSE \A i \in 0 .. (sz - 1) :
                  b.grid[position.row][position.column + i] = "Empty"
    ELSE IF position.row + sz > BOARD_SIZE
         THEN FALSE
         ELSE \A i \in 0 .. (sz - 1) :
                  b.grid[position.row + i][position.column] = "Empty"

\* the cell the i-th iteration of place_ship's for loop writes
ship_cell(position, direction, i) ==
    IF direction = "Horizontal"
    THEN Position(position.row, position.column + i)
    ELSE Position(position.row + i, position.column)

\* the for loop writing Ship to the anchor cell on every iteration
RECURSIVE place_cells_grid_at_anchor(_, _, _, _, _)
place_cells_grid_at_anchor(b, position, sz, direction, i) ==
    IF i >= sz
    THEN b
    ELSE LET p == ship_cell(position, direction, i)
         IN  place_cells_grid_at_anchor(
                 [b EXCEPT !.grid[position.row][position.column] = "Ship",
                           !.ships = Append(@, p)],
                 position, sz, direction, i + 1)

\* the for loop of place_ship, from iteration i on
RECURSIVE place_cells(_, _, _, _, _)
place_cells(b, position, sz, direction, i) ==
    IF i >= sz
    THEN b
    ELSE LET p == ship_cell(position, direction, i)
         IN  place_cells([b EXCEPT !.grid[p.row][p.column] = "Ship",
                                   !.ships = Append(@, p)],
                         position, sz, direction, i + 1)

\* the loop iteration with its break moved out of the if
place_ship_iter_break_always(b, position, sz, direction) ==
    IF can_place(b, position, sz, direction)
    THEN [board |-> place_cells(b, position, sz, direction, 0), done |-> TRUE]
    ELSE [board |-> b, done |-> TRUE]

\* one iteration of place_ship's loop, for the candidate drawn
place_ship_iter(b, position, sz, direction) ==
    IF can_place(b, position, sz, direction)
    THEN [board |-> place_cells(b, position, sz, direction, 0), done |-> TRUE]
    ELSE [board |-> b, done |-> FALSE]

\* fire that leaves open water of a Hidden board unmarked
fire_hidden_unmarked(b, position) ==
    LET cell == b.grid[position.row][position.column]
    IN  CASE cell = "Empty" ->
                [board |-> IF b.board_visibility = "Hidden"
                           THEN b
                           ELSE [b EXCEPT
                                   !.grid[position.row][position.column] = "Miss"],
                 ret |-> "Miss"]
          [] cell = "Ship" ->
                [board |-> [b EXCEPT !.grid[position.row][position.column] = "Hit"],
                 ret |-> "Hit"]
          [] OTHER -> [board |-> b, ret |-> "Miss"]

\* fire that also drops a hit position from ships
fire_drops_ship(b, position) ==
    LET cell == b.grid[position.row][position.column]
    IN  CASE cell = "Empty" ->
                [board |-> [b EXCEPT !.grid[position.row][position.column] = "Miss"],
                 ret |-> "Miss"]
          [] cell = "Ship" ->
                [board |-> [b EXCEPT !.grid[position.row][position.column] = "Hit",
                                     !.ships = SelectSeq(@, LAMBDA q : q # position)],
                 ret |-> "Hit"]
          [] OTHER -> [board |-> b, ret |-> "Miss"]

\* fire with its two outcomes exchanged
fire_outcomes_swapped(b, position) ==
    LET cell == b.grid[position.row][position.column]
    IN  CASE cell = "Empty" ->
                [board |-> [b EXCEPT !.grid[position.row][position.column] = "Miss"],
                 ret |-> "Hit"]
          [] cell = "Ship" ->
                [board |-> [b EXCEPT !.grid[position.row][position.column] = "Hit"],
                 ret |-> "Miss"]
          [] OTHER -> [board |-> b, ret |-> "Miss"]

\* fire whose last arm also writes Miss to the cell
fire_refire_writes_miss(b, position) ==
    LET cell == b.grid[position.row][position.column]
    IN  CASE cell = "Empty" ->
                [board |-> [b EXCEPT !.grid[position.row][position.column] = "Miss"],
                 ret |-> "Miss"]
          [] cell = "Ship" ->
                [board |-> [b EXCEPT !.grid[position.row][position.column] = "Hit"],
                 ret |-> "Hit"]
          [] OTHER ->
                [board |-> [b EXCEPT !.grid[position.row][position.column] = "Miss"],
                 ret |-> "Miss"]

\* fire that toggles a Hit cell back to Ship
fire_hit_toggles(b, position) ==
    LET cell == b.grid[position.row][position.column]
    IN  CASE cell = "Empty" ->
                [board |-> [b EXCEPT !.grid[position.row][position.column] = "Miss"],
                 ret |-> "Miss"]
          [] cell = "Ship" ->
                [board |-> [b EXCEPT !.grid[position.row][position.column] = "Hit"],
                 ret |-> "Hit"]
          [] cell = "Hit" ->
                [board |-> [b EXCEPT !.grid[position.row][position.column] = "Ship"],
                 ret |-> "Miss"]
          [] OTHER -> [board |-> b, ret |-> "Miss"]

\* fire answering Hit again at a cell that is already Hit
fire_refire_returns_hit(b, position) ==
    LET cell == b.grid[position.row][position.column]
    IN  CASE cell = "Empty" ->
                [board |-> [b EXCEPT !.grid[position.row][position.column] = "Miss"],
                 ret |-> "Miss"]
          [] cell = "Ship" ->
                [board |-> [b EXCEPT !.grid[position.row][position.column] = "Hit"],
                 ret |-> "Hit"]
          [] cell = "Hit" -> [board |-> b, ret |-> "Hit"]
          [] OTHER -> [board |-> b, ret |-> "Miss"]

\* Board::fire
fire(b, position) ==
    LET cell == b.grid[position.row][position.column]
    IN  CASE cell = "Empty" ->
                [board |-> [b EXCEPT !.grid[position.row][position.column] = "Miss"],
                 ret |-> "Miss"]
          [] cell = "Ship" ->
                [board |-> [b EXCEPT !.grid[position.row][position.column] = "Hit"],
                 ret |-> "Hit"]
          [] OTHER -> [board |-> b, ret |-> "Miss"]

\* game_over with any in place of all
game_over_any(b) ==
    \E k \in 1 .. Len(b.ships) :
        b.grid[b.ships[k].row][b.ships[k].column] = "Hit"

\* game_over that wants at least one ship on the board
game_over_nonempty(b) ==
    /\ Len(b.ships) > 0
    /\ \A k \in 1 .. Len(b.ships) :
          b.grid[b.ships[k].row][b.ships[k].column] = "Hit"

\* Board::game_over
game_over(b) ==
    \A k \in 1 .. Len(b.ships) :
        b.grid[b.ships[k].row][b.ships[k].column] = "Hit"

----------------------------------------------------------------------------
(* The record of the last step taken: the call, its arguments, its result *)

Last(op, board, position, direction, sz, ret) ==
    [op |-> op, board |-> board, position |-> position,
     direction |-> direction, size |-> sz, ret |-> ret]

NoLast == Last("none", "none", NoPosition, "none", 0, "none")

\* whether the latest game_over() answers were true: "no" before any true
\* answer, "yes" after one, "placed" once a ship was placed after one
WonAfterQuery(w, answer) == IF answer THEN "yes" ELSE w

WonAfterPlacement(w) == IF w = "no" THEN "no" ELSE "placed"

\* what main's loop has done so far: the board it fired at last, the
\* game_over checks it made since that fire, the Hit results per board
NoTally ==
    [fired_at |-> "none", checks |-> 0, hits |-> [player |-> 0, computer |-> 0]]

TallyAfterFire(t, board, ret) ==
    [fired_at |-> board,
     checks |-> 0,
     hits |-> IF ret = "Hit" THEN [t.hits EXCEPT ![board] = @ + 1] ELSE t.hits]

TallyAfterCheck(t) == [t EXCEPT !.checks = @ + 1]

----------------------------------------------------------------------------
(* Spec: one Board under any interleaving of its operations *)

\* sizes a caller may pass: the legal ones and one that is too large
Sizes == 1 .. (BOARD_SIZE + 1)

Init ==
    /\ player_board = new("Visible")
    /\ computer_board = new("Hidden")
    /\ pc = "idle"
    /\ size = 0
    /\ calls = 0
    /\ won = "no"
    /\ shot = NoPosition
    /\ result = "none"
    /\ tally = NoTally
    /\ last = NoLast

\* a caller enters place_ship(sz)
CallPlaceShip ==
    /\ pc = "idle"
    /\ calls < MaxCalls
    /\ \E sz \in Sizes :
         /\ size' = sz
         /\ last' = Last("call", "player", NoPosition, "none", sz, "none")
    /\ pc' = "place_ship"
    /\ calls' = calls + 1
    /\ UNCHANGED <<player_board, computer_board, won, shot, result, tally>>

\* one iteration of place_ship's loop: draw, test, commit or retry
PlaceShipIter ==
    /\ pc = "place_ship"
    /\ \E position \in InBoundsPositions, direction \in Orientation :
         LET it == place_ship_iter(player_board, position, size, direction)
         IN  /\ player_board' = it.board
             /\ pc' = IF it.done THEN "idle" ELSE "place_ship"
             /\ won' = IF it.done THEN WonAfterPlacement(won) ELSE won
             /\ last' = Last(IF it.done THEN "place_ship" ELSE "rejected",
                             "player", position, direction, size, "none")
    /\ UNCHANGED <<computer_board, size, calls, shot, result, tally>>

\* a caller fires at an in-bounds position
Fire ==
    /\ pc = "idle"
    /\ \E position \in InBoundsPositions :
         LET f == fire(player_board, position)
         IN  /\ player_board' = f.board
             /\ last' = Last("fire", "player", position, "none", 0, f.ret)
    /\ UNCHANGED <<computer_board, pc, size, calls, won, shot, result, tally>>

\* a caller asks game_over()
GameOver ==
    /\ pc = "idle"
    /\ LET answer == game_over(player_board)
       IN  /\ last' = Last("game_over", "player", NoPosition, "none", 0, answer)
           /\ won' = WonAfterQuery(won, answer)
    /\ UNCHANGED <<player_board, computer_board, pc, size, calls, shot, result, tally>>

Next == CallPlaceShip \/ PlaceShipIter \/ Fire \/ GameOver

Spec == Init /\ [][Next]_vars

----------------------------------------------------------------------------
(* Coordinate text: user_input and parse_coordinates *)

DigitChars == <<"0", "1", "2", "3", "4", "5", "6", "7", "8", "9">>

\* the characters of the input lines explored: the digits of every in-bounds
\* coordinate and of the first out-of-bounds one, the separator, a blank and
\* a letter
Alphabet ==
    {DigitChars[i] : i \in 1 .. (BOARD_SIZE + 1)} \cup {",", " ", "a"}

\* the lines a user may type, without the newline read_line leaves at the end
Inputs == UNION {[1 .. n -> Alphabet] : n \in 0 .. MaxInputLen}

\* io::stdin().read_line: the typed text and its newline
read_line(typed) == typed \o <<"\n">>

IsWhitespace(ch) == ch \in {" ", "\n"}

IsDigit(ch) == \E i \in 1 .. 10 : DigitChars[i] = ch

DigitValue(ch) == (CHOOSE i \in 1 .. 10 : DigitChars[i] = ch) - 1

RECURSIVE TrimStart(_)
TrimStart(s) ==
    IF s # <<>> /\ IsWhitespace(Head(s)) THEN TrimStart(Tail(s)) ELSE s

RECURSIVE TrimEnd(_)
TrimEnd(s) ==
    IF s # <<>> /\ IsWhitespace(s[Len(s)])
    THEN TrimEnd(SubSeq(s, 1, Len(s) - 1))
    ELSE s

\* str::trim
trim(s) == TrimEnd(TrimStart(s))

\* str::split(','): the pieces between the commas, empty pieces included
RECURSIVE split(_, _)
split(s, piece) ==
    IF s = <<>>
    THEN <<piece>>
    ELSE IF Head(s) = ","
         THEN <<piece>> \o split(Tail(s), <<>>)
         ELSE split(Tail(s), Append(piece, Head(s)))

ParseErr == -1

RECURSIVE DigitsValue(_, _)
DigitsValue(s, acc) ==
    IF s = <<>>
    THEN acc
    ELSE DigitsValue(Tail(s), 10 * acc + DigitValue(Head(s)))

\* str::parse::<usize>: a non-empty run of decimal digits, or an error
parse(s) ==
    IF s # <<>> /\ \A k \in 1 .. Len(s) : IsDigit(s[k])
    THEN DigitsValue(s, 0)
    ELSE ParseErr

\* parse_coordinates without the None of its pattern: pieces after the
\* second are ignored
parse_coordinates_ignores_extra(input) ==
    LET pieces == split(trim(input), <<>>)
        coords == [k \in 1 .. Len(pieces) |-> parse(trim(pieces[k]))]
    IN  IF Len(coords) >= 2 /\ coords[1] # ParseErr /\ coords[2] # ParseErr
        THEN [ok |-> TRUE, position |-> Position(coords[1], coords[2])]
        ELSE [ok |-> FALSE, position |-> NoPosition]

\* parse_coordinates: Ok(Position) for exactly two pieces that both parse
parse_coordinates(input) ==
    LET pieces == split(trim(input), <<>>)
        coords == [k \in 1 .. Len(pieces) |-> parse(trim(pieces[k]))]
    IN  IF Len(coords) = 2 /\ coords[1] # ParseErr /\ coords[2] # ParseErr
        THEN [ok |-> TRUE, position |-> Position(coords[1], coords[2])]
        ELSE [ok |-> FALSE, position |-> NoPosition]

\* the loop iteration without its test against BOARD_SIZE
user_input_iter_unchecked(input) ==
    LET parsed == parse_coordinates(input)
    IN  IF parsed.ok
        THEN [accepted |-> TRUE, position |-> parsed.position,
              why |-> "accepted"]
        ELSE [accepted |-> FALSE, position |-> NoPosition, why |-> "invalid"]

\* one iteration of user_input's loop on the line read: the position is
\* returned only when it parsed and lies on the board
user_input_iter(input) ==
    LET parsed == parse_coordinates(input)
    IN  IF parsed.ok
        THEN IF parsed.position.row < BOARD_SIZE
                /\ parsed.position.column < BOARD_SIZE
             THEN [accepted |-> TRUE, position |-> parsed.position,
                   why |-> "accepted"]
             ELSE [accepted |-> FALSE, position |-> parsed.position,
                   why |-> "out_of_bounds"]
        ELSE [accepted |-> FALSE, position |-> NoPosition, why |-> "invalid"]

\* what one iteration of user_input's loop can come to, over every line of
\* Inputs
UserInputOutcomes == {user_input_iter(read_line(typed)) : typed \in Inputs}

\* opponent_move: the positions the two draws can produce
opponent_move == InBoundsPositions

----------------------------------------------------------------------------
(* SpecGame: main *)

InitGame ==
    /\ player_board = new("Visible")
    /\ computer_board = new("Hidden")
    /\ pc = "main_place"
    /\ size = 0
    /\ calls = 0
    /\ won = "no"
    /\ shot = NoPosition
    /\ result = "none"
    /\ tally = NoTally
    /\ last = NoLast

\* the board the next place_ship call of main is made on
PlacingOn == IF calls < MaxShips THEN "player" ELSE "computer"

\* main calls place_ship with the next size of the fleet
MainCallPlaceShip ==
    /\ pc = "main_place"
    /\ calls < 2 * MaxShips
    /\ size' = Fleet[(calls % MaxShips) + 1]
    /\ pc' = "main_place_ship"
    /\ last' = Last("call", PlacingOn, NoPosition, "none",
                    Fleet[(calls % MaxShips) + 1], "none")
    /\ UNCHANGED <<player_board, computer_board, calls, won, shot, result, tally>>

\* one iteration of place_ship's loop on the board being populated
MainPlaceShipIter ==
    /\ pc = "main_place_ship"
    /\ \E position \in InBoundsPositions, direction \in Orientation :
         LET b  == IF PlacingOn = "player" THEN player_board ELSE computer_board
             it == place_ship_iter(b, position, size, direction)
         IN  /\ player_board' = IF PlacingOn = "player" THEN it.board
                                ELSE player_board
             /\ computer_board' = IF PlacingOn = "computer" THEN it.board
                                  ELSE computer_board
             /\ pc' = IF it.done THEN "main_place" ELSE "main_place_ship"
             /\ calls' = IF it.done THEN calls + 1 ELSE calls
             /\ last' = Last(IF it.done THEN "place_ship" ELSE "rejected",
                             PlacingOn, position, direction, size, "none")
    /\ UNCHANGED <<size, won, shot, result, tally>>

\* top of the game loop: clear the screen and print both boards
Render ==
    /\ pc \in {"main_place", "render"}
    /\ calls = 2 * MaxShips
    /\ pc' = "user_input"
    /\ last' = Last("render", "none", NoPosition, "none", 0, "none")
    /\ UNCHANGED <<player_board, computer_board, size, calls, won, shot, result, tally>>

\* one iteration of user_input's loop: read a line, return or ask again
UserInput ==
    /\ pc = "user_input"
    /\ \E it \in UserInputOutcomes :
         /\ shot' = IF it.accepted THEN it.position ELSE shot
         /\ pc' = IF it.accepted THEN "player_fire" ELSE "user_input"
         /\ last' = Last("user_input", "none",
                         IF it.accepted THEN it.position ELSE NoPosition,
                         "none", 0, it.why)
    /\ UNCHANGED <<player_board, computer_board, size, calls, won, result, tally>>

\* let result = computer_board.fire(player)
PlayerFire ==
    /\ pc = "player_fire"
    /\ LET f == fire(computer_board, shot)
       IN  /\ computer_board' = f.board
           /\ result' = f.ret
           /\ tally' = TallyAfterFire(tally, "computer", f.ret)
           /\ last' = Last("fire", "computer", shot, "none", 0, f.ret)
    /\ pc' = "player_report"
    /\ UNCHANGED <<player_board, size, calls, won, shot>>

\* the report going straight to the game_over check, without the wait
PlayerReport_skips_ack ==
    /\ pc = "player_report"
    /\ pc' = "player_check"
    /\ last' = Last("report", "computer", shot, "none", 0, result)
    /\ UNCHANGED <<player_board, computer_board, size, calls, won, shot,
                   result, tally>>

\* match result: print the outcome of the player's shot
PlayerReport ==
    /\ pc = "player_report"
    /\ pc' = "player_ack"
    /\ last' = Last("report", "computer", shot, "none", 0, result)
    /\ UNCHANGED <<player_board, computer_board, size, calls, won, shot, result, tally>>

\* "Enter to continue...": wait for a line
PlayerAck ==
    /\ pc = "player_ack"
    /\ pc' = "player_check"
    /\ last' = Last("ack", "computer", NoPosition, "none", 0, "none")
    /\ UNCHANGED <<player_board, computer_board, size, calls, won, shot, result, tally>>

\* the check without its break: the loop goes on whatever the answer
PlayerCheck_never_breaks ==
    /\ pc = "player_check"
    /\ LET answer == game_over(computer_board)
       IN  /\ pc' = "opponent_move"
           /\ won' = WonAfterQuery(won, answer)
           /\ tally' = TallyAfterCheck(tally)
           /\ last' = Last("game_over", "computer", NoPosition, "none", 0, answer)
    /\ UNCHANGED <<player_board, computer_board, size, calls, shot, result>>

\* if computer_board.game_over() { break }
PlayerCheck ==
    /\ pc = "player_check"
    /\ LET answer == game_over(computer_board)
       IN  /\ pc' = IF answer THEN "done" ELSE "opponent_move"
           /\ won' = WonAfterQuery(won, answer)
           /\ tally' = TallyAfterCheck(tally)
           /\ last' = Last("game_over", "computer", NoPosition, "none", 0, answer)
    /\ UNCHANGED <<player_board, computer_board, size, calls, shot, result>>

\* let opponent = opponent_move()
OpponentMove ==
    /\ pc = "opponent_move"
    /\ \E position \in opponent_move :
         /\ shot' = position
         /\ last' = Last("opponent_move", "none", position, "none", 0, "none")
    /\ pc' = "opponent_fire"
    /\ UNCHANGED <<player_board, computer_board, size, calls, won, result, tally>>

\* let result = player_board.fire(opponent)
OpponentFire ==
    /\ pc = "opponent_fire"
    /\ LET f == fire(player_board, shot)
       IN  /\ player_board' = f.board
           /\ result' = f.ret
           /\ tally' = TallyAfterFire(tally, "player", f.ret)
           /\ last' = Last("fire", "player", shot, "none", 0, f.ret)
    /\ pc' = "opponent_report"
    /\ UNCHANGED <<computer_board, size, calls, won, shot>>

\* match result: print the outcome of the opponent's shot
OpponentReport ==
    /\ pc = "opponent_report"
    /\ pc' = "opponent_ack"
    /\ last' = Last("report", "player", shot, "none", 0, result)
    /\ UNCHANGED <<player_board, computer_board, size, calls, won, shot, result, tally>>

\* "Enter to continue...": wait for a line
OpponentAck ==
    /\ pc = "opponent_ack"
    /\ pc' = "opponent_check"
    /\ last' = Last("ack", "player", NoPosition, "none", 0, "none")
    /\ UNCHANGED <<player_board, computer_board, size, calls, won, shot, result, tally>>

\* the check without its break: the loop goes on whatever the answer
OpponentCheck_never_breaks ==
    /\ pc = "opponent_check"
    /\ LET answer == game_over(player_board)
       IN  /\ pc' = "render"
           /\ won' = WonAfterQuery(won, answer)
           /\ tally' = TallyAfterCheck(tally)
           /\ last' = Last("game_over", "player", NoPosition, "none", 0, answer)
    /\ UNCHANGED <<player_board, computer_board, size, calls, shot, result>>

\* if player_board.game_over() { break }
OpponentCheck ==
    /\ pc = "opponent_check"
    /\ LET answer == game_over(player_board)
       IN  /\ pc' = IF answer THEN "done" ELSE "render"
           /\ won' = WonAfterQuery(won, answer)
           /\ tally' = TallyAfterCheck(tally)
           /\ last' = Last("game_over", "player", NoPosition, "none", 0, answer)
    /\ UNCHANGED <<player_board, computer_board, size, calls, shot, result>>

NextGame ==
    \/ MainCallPlaceShip \/ MainPlaceShipIter \/ Render \/ UserInput
    \/ PlayerFire \/ PlayerReport \/ PlayerAck \/ PlayerCheck
    \/ OpponentMove \/ OpponentFire \/ OpponentReport \/ OpponentAck
    \/ OpponentCheck

SpecGame == InitGame /\ [][NextGame]_vars

----------------------------------------------------------------------------
(* SpecPlaceFair: the eight place_ship calls of main, under fair draws *)

NextPlace == MainCallPlaceShip \/ MainPlaceShipIter

\* the iteration of place_ship's loop that draws a candidate can_place admits
PlaceShipCommits == MainPlaceShipIter /\ pc' = "main_place"

\* main goes on to its next call, and a loop that keeps drawing among
\* candidates of which one is admitted eventually draws an admitted one
SpecPlaceFair ==
    /\ InitGame
    /\ [][NextPlace]_vars
    /\ WF_vars(MainCallPlaceShip)
    /\ WF_vars(PlaceShipCommits)

----------------------------------------------------------------------------
(* SpecGameFair: main with a human who answers *)

\* the iteration of user_input's loop that reads an accepted coordinate
UserInputAccepted == UserInput /\ pc' = "player_fire"

\* the steps of main that wait for nothing but the processor or for the
\* human's line at "Enter to continue..."
MainSteps ==
    \/ MainCallPlaceShip \/ Render
    \/ PlayerFire \/ PlayerReport \/ PlayerAck \/ PlayerCheck
    \/ OpponentMove \/ OpponentFire \/ OpponentReport \/ OpponentAck
    \/ OpponentCheck

\* main runs on; place_ship's loop eventually draws an admitted candidate;
\* the human eventually types an accepted coordinate and the acknowledging
\* line. The cells the human names and the cells opponent_move draws are
\* left free.
SpecGameFair ==
    /\ InitGame
    /\ [][NextGame]_vars
    /\ WF_vars(MainSteps)
    /\ WF_vars(PlaceShipCommits)
    /\ WF_vars(UserInputAccepted)

----------------------------------------------------------------------------
(* SpecTwin: a Visible and a Hidden board driven by the same calls *)

\* both boards enter place_ship(sz)
TwinCallPlaceShip ==
    /\ pc = "idle"
    /\ calls < MaxCalls
    /\ \E sz \in Sizes :
         /\ size' = sz
         /\ last' = Last("call", "both", NoPosition, "none", sz, "none")
    /\ pc' = "place_ship"
    /\ calls' = calls + 1
    /\ result' = "none"
    /\ UNCHANGED <<player_board, computer_board, won, shot, tally>>

\* one iteration of place_ship's loop on each board, for the same draw
TwinPlaceShipIter ==
    /\ pc = "place_ship"
    /\ \E position \in InBoundsPositions, direction \in Orientation :
         LET itp == place_ship_iter(player_board, position, size, direction)
             itc == place_ship_iter(computer_board, position, size, direction)
         IN  /\ player_board' = itp.board
             /\ computer_board' = itc.board
             /\ pc' = IF itp.done THEN "idle" ELSE "place_ship"
             /\ won' = IF itp.done THEN WonAfterPlacement(won) ELSE won
             /\ last' = Last("place_ship", "both", position, direction, size,
                             itp.done)
             /\ result' = itc.done
    /\ UNCHANGED <<size, calls, shot, tally>>

\* the same fire on each board
TwinFire ==
    /\ pc = "idle"
    /\ \E position \in InBoundsPositions :
         LET fp == fire(player_board, position)
             fc == fire(computer_board, position)
         IN  /\ player_board' = fp.board
             /\ computer_board' = fc.board
             /\ last' = Last("fire", "both", position, "none", 0, fp.ret)
             /\ result' = fc.ret
    /\ UNCHANGED <<pc, size, calls, won, shot, tally>>

\* game_over() on each board
TwinGameOver ==
    /\ pc = "idle"
    /\ last' = Last("game_over", "both", NoPosition, "none", 0,
                    game_over(player_board))
    /\ result' = game_over(computer_board)
    /\ won' = WonAfterQuery(won, game_over(player_board))
    /\ UNCHANGED <<player_board, computer_board, pc, size, calls, shot, tally>>

NextTwin ==
    TwinCallPlaceShip \/ TwinPlaceShipIter \/ TwinFire \/ TwinGameOver

SpecTwin == Init /\ [][NextTwin]_vars

----------------------------------------------------------------------------
(* Vocabulary of the properties *)

\* the state of the cell at position p of board b
Cell(b, p) == b.grid[p.row][p.column]

\* the board a step names, among the two given
BoardNamed(name, pb, cb) == IF name = "player" THEN pb ELSE cb

\* the other one
OtherBoard(name, pb, cb) == IF name = "player" THEN cb ELSE pb

\* the positions recorded in ships
ShipSet(b) == {b.ships[k] : k \in 1 .. Len(b.ships)}

\* the on-board positions whose cell is in one of the given states
CellsIn(b, states) == {p \in InBoundsPositions : Cell(b, p) \in states}

\* the straight run of sz cells from anchor a in direction d
Run(a, d, sz) ==
    IF d = "Horizontal"
    THEN {Position(a.row, c) : c \in a.column .. (a.column + sz - 1)}
    ELSE {Position(r, a.column) : r \in a.row .. (a.row + sz - 1)}

----------------------------------------------------------------------------
(* C1: every fire(p) at an in-bounds p whose cell is Empty sets the cell to
   Miss and returns Miss, and every fire(p) whose cell is Ship sets the cell
   to Hit and returns Hit. *)
C1_FireOutcome ==
    [][last'.op = "fire" =>
         LET p      == last'.position
             before == BoardNamed(last'.board, player_board, computer_board)
             after  == BoardNamed(last'.board, player_board', computer_board')
         IN  /\ Cell(before, p) = "Empty" =>
                    Cell(after, p) = "Miss" /\ last'.ret = "Miss"
             /\ Cell(before, p) = "Ship" =>
                    Cell(after, p) = "Hit" /\ last'.ret = "Hit"]_vars

\* a fire has just hit a ship, on a board that also holds a miss in open water
C1_Witness ==
    /\ last.op = "fire"
    /\ last.ret = "Hit"
    /\ Cell(player_board, last.position) = "Hit"
    /\ CellsIn(player_board, {"Miss"}) \ ShipSet(player_board) # {}

(* C2: fire(p) on a cell that is already Hit or Miss changes nothing of the
   board and returns Miss; a second fire right after a fire at the same cell
   returns Miss and changes nothing; and no step ever changes a cell that is
   Hit or Miss. *)
C2_RefireIdempotent ==
    [][/\ \A p \in InBoundsPositions :
             Cell(player_board, p) \in {"Hit", "Miss"} =>
                 Cell(player_board', p) = Cell(player_board, p)
       /\ last'.op = "fire" =>
             LET p      == last'.position
                 before == BoardNamed(last'.board, player_board, computer_board)
                 after  == BoardNamed(last'.board, player_board', computer_board')
             IN  /\ Cell(before, p) \in {"Hit", "Miss"} =>
                        after = before /\ last'.ret = "Miss"
                 /\ (last.op = "fire" /\ last.position = p) =>
                        /\ after = before
                        /\ last'.ret = "Miss"
                        /\ Cell(after, p) =
                             (IF last.ret = "Hit" THEN "Hit" ELSE "Miss")]_vars

\* the second of two fires at a ship cell: it answered Miss, the cell is Hit
C2_Witness ==
    /\ last.op = "fire"
    /\ last.ret = "Miss"
    /\ Cell(player_board, last.position) = "Hit"

(* C3: game_over() answers true exactly when every position recorded in
   ships has a Hit cell, and the call changes neither grid nor ships. *)
C3_GameOverIffAllHit ==
    [][last'.op = "game_over" =>
         LET before == BoardNamed(last'.board, player_board, computer_board)
         IN  /\ last'.ret = (ShipSet(before) \subseteq CellsIn(before, {"Hit"}))
             /\ player_board' = player_board
             /\ computer_board' = computer_board]_vars

\* game_over() has just answered true on a board that has ships
C3_Witness ==
    /\ last.op = "game_over"
    /\ last.ret = TRUE
    /\ Len(player_board.ships) > 0
    /\ CellsIn(player_board, {"Miss"}) # {}

(* C4, as claimed: once game_over() has answered true, every later
   game_over() answers true, whatever was called in between. *)
C4_MonotonicAnyOperation ==
    [][(won \in {"yes", "placed"} /\ last'.op = "game_over") =>
          last'.ret = TRUE]_vars

(* C4, amended: once game_over() has answered true, every later game_over()
   answers true as long as no place_ship call has placed a ship since; fire
   calls never undo it. *)
C4_MonotonicUnderFire ==
    [][(won = "yes" /\ last'.op = "game_over") => last'.ret = TRUE]_vars

\* a fire made after game_over() answered true, on a board that has ships
C4_Witness ==
    /\ won = "yes"
    /\ last.op = "fire"
    /\ Len(player_board.ships) > 0
    /\ game_over(player_board)

(* C5: once main has placed the whole fleet on a board, ships holds exactly
   FleetCells positions (the sum of the fleet's sizes: 14 for 2,3,4,5), they
   are pairwise distinct, and the number of cells that are Ship or Hit is
   FleetCells, in that state and after every later fire. *)
PlacementDone(name) ==
    IF name = "player" THEN calls >= MaxShips ELSE calls = 2 * MaxShips

C5_FleetCellsDistinct ==
    \A name \in {"player", "computer"} :
        PlacementDone(name) =>
            LET b == BoardNamed(name, player_board, computer_board)
            IN  /\ Len(b.ships) = FleetCells
                /\ Cardinality(ShipSet(b)) = FleetCells
                /\ Cardinality(CellsIn(b, {"Ship", "Hit"})) = FleetCells

\* both fleets placed, and a fire has since hit a ship of the player's board
\* while the computer's board holds a miss
C5_Witness ==
    /\ calls = 2 * MaxShips
    /\ last.op = "fire"
    /\ last.board = "player"
    /\ last.ret = "Hit"
    /\ CellsIn(computer_board, {"Miss"}) # {}

(* C6: in every state reached by place_ship and in-bounds fire calls, every
   position in ships has its row and column in [0, BOARD_SIZE) and its cell
   is Ship or Hit. *)
C6_ShipsOnBoardNeverEmpty ==
    \A k \in 1 .. Len(player_board.ships) :
        LET p == player_board.ships[k]
        IN  /\ p.row \in 0 .. (BOARD_SIZE - 1)
            /\ p.column \in 0 .. (BOARD_SIZE - 1)
            /\ player_board.grid[p.row][p.column] \in {"Ship", "Hit"}

\* a fire has acted on a board that holds a hit ship cell, an intact one and
\* a miss
C6_Witness ==
    /\ last.op = "fire"
    /\ ShipSet(player_board) \cap CellsIn(player_board, {"Hit"}) # {}
    /\ ShipSet(player_board) \cap CellsIn(player_board, {"Ship"}) # {}
    /\ CellsIn(player_board, {"Miss"}) # {}

(* C7: a place_ship(size) call with 1 <= size <= BOARD_SIZE that completes
   changes exactly size cells; they were Empty, lie on the board and form
   the run of size cells from the anchor along its row (Horizontal) or
   column (Vertical); they become Ship, exactly their positions are appended
   to ships, and every other cell and earlier ships entry is unchanged. *)
C7_PlacementEffect ==
    [][(last'.op = "place_ship" /\ last'.size \in 1 .. BOARD_SIZE) =>
         LET before  == BoardNamed(last'.board, player_board, computer_board)
             after   == BoardNamed(last'.board, player_board', computer_board')
             run     == Run(last'.position, last'.direction, last'.size)
             changed == {p \in InBoundsPositions : Cell(after, p) # Cell(before, p)}
             n       == Len(before.ships)
         IN  /\ changed = run
             /\ Cardinality(changed) = last'.size
             /\ run \subseteq InBoundsPositions
             /\ \A p \in run : Cell(before, p) = "Empty" /\ Cell(after, p) = "Ship"
             /\ Len(after.ships) = n + last'.size
             /\ SubSeq(after.ships, 1, n) = before.ships
             /\ {after.ships[k] : k \in (n + 1) .. (n + last'.size)} = run
             /\ DOMAIN after.grid = DOMAIN before.grid
             /\ OtherBoard(last'.board, player_board', computer_board')
                  = OtherBoard(last'.board, player_board, computer_board)]_vars

\* a vertical ship as long as the board has just been placed next to an
\* earlier ship, on a board that was fired at
C7_Witness ==
    /\ last.op = "place_ship"
    /\ last.size = BOARD_SIZE
    /\ last.direction = "Vertical"
    /\ Len(player_board.ships) > BOARD_SIZE
    /\ CellsIn(player_board, {"Miss", "Hit"}) # {}

(* C8: fire(p) never changes ships and never changes a grid cell other than
   p; in the game of two boards, a fire on one board leaves the other
   board's grid and ships unchanged. *)
C8_FireFrame ==
    [][last'.op = "fire" =>
         LET p      == last'.position
             before == BoardNamed(last'.board, player_board, computer_board)
             after  == BoardNamed(last'.board, player_board', computer_board')
         IN  /\ after.ships = before.ships
             /\ \A q \in InBoundsPositions \ {p} : Cell(after, q) = Cell(before, q)
             /\ DOMAIN after.grid = DOMAIN before.grid
             /\ OtherBoard(last'.board, player_board', computer_board').grid
                  = OtherBoard(last'.board, player_board, computer_board).grid
             /\ OtherBoard(last'.board, player_board', computer_board').ships
                  = OtherBoard(last'.board, player_board, computer_board).ships]_vars

\* the opponent has just hit the player's board while the computer's board
\* already holds a hit of the player's
C8_Witness ==
    /\ last.op = "fire"
    /\ last.board = "player"
    /\ last.ret = "Hit"
    /\ CellsIn(computer_board, {"Hit"}) # {}
    /\ CellsIn(player_board, {"Ship"}) # {}

(* C9: in the game loop, every position passed to fire, from user_input or
   from opponent_move, has row < BOARD_SIZE and column < BOARD_SIZE. *)
C9_FireInBounds ==
    /\ pc \in {"player_fire", "opponent_fire"} =>
          shot.row < BOARD_SIZE /\ shot.column < BOARD_SIZE
    /\ last.op = "fire" =>
          last.position.row < BOARD_SIZE /\ last.position.column < BOARD_SIZE

\* user_input has returned the last cell of the board and fire is about to
\* receive it
C9_Witness ==
    /\ pc = "player_fire"
    /\ last.op = "user_input"
    /\ last.ret = "accepted"
    /\ shot = Position(BOARD_SIZE - 1, BOARD_SIZE - 1)
    /\ CellsIn(player_board, {"Hit", "Miss"}) # {}

(* C10: place_ship returns only by committing a placement of size cells that
   were Empty and on the board; a rejected candidate leaves grid and ships
   unchanged and the call in its loop; and when size > BOARD_SIZE, can_place
   is false for every anchor and orientation, so the call neither returns
   nor changes the board. *)
C10_PlaceShipNoFailureExit ==
    [][/\ (pc = "place_ship" /\ pc' # "place_ship") =>
             /\ last'.op = "place_ship"
             /\ pc' = "idle"
             /\ Len(player_board'.ships) = Len(player_board.ships) + size
             /\ \A k \in (Len(player_board.ships) + 1) .. Len(player_board'.ships) :
                    LET p == player_board'.ships[k]
                    IN  /\ p \in InBoundsPositions
                        /\ Cell(player_board, p) = "Empty"
                        /\ Cell(player_board', p) = "Ship"
       /\ last'.op = "rejected" =>
             /\ player_board' = player_board
             /\ pc = "place_ship" /\ pc' = "place_ship"
             /\ size' = size
       /\ (pc = "place_ship" /\ size > BOARD_SIZE) =>
             /\ \A position \in InBoundsPositions, direction \in Orientation :
                    ~can_place(player_board, position, size, direction)
             /\ pc' = "place_ship"
             /\ player_board' = player_board]_vars

\* a place_ship call with a size larger than the board is retrying, on a
\* board that already holds a ship
C10_Witness ==
    /\ pc = "place_ship"
    /\ size > BOARD_SIZE
    /\ last.op = "rejected"
    /\ Len(player_board.ships) > 0

(* C11: for the fleet placed in order on a fresh board, whenever a
   place_ship call of main is in its loop some anchor and orientation
   satisfy can_place, and under fair draws every one of the calls returns,
   so that both fleets end up placed. *)
C11_PlacementTerminates ==
    /\ [](pc = "main_place_ship" =>
            \E position \in InBoundsPositions, direction \in Orientation :
                can_place(BoardNamed(PlacingOn, player_board, computer_board),
                          position, size, direction))
    /\ (pc = "main_place_ship") ~> (pc = "main_place")
    /\ <>[](calls = 2 * MaxShips /\ pc = "main_place")

\* the last call of main is retrying after a rejected draw
C11_Witness ==
    /\ pc = "main_place_ship"
    /\ calls = 2 * MaxShips - 1
    /\ size = Fleet[MaxShips]
    /\ last.op = "rejected"

(* The steps of a turn that are not the two named: how a fire follows the
   coordinate obtained for it, and a report the fire it reports. *)
FireFollowsCoordinate ==
    last'.op = "fire" =>
        /\ last'.position = last.position
        /\ \/ /\ last'.board = "computer"
              /\ last.op = "user_input"
              /\ last.ret = "accepted"
           \/ /\ last'.board = "player"
              /\ last.op = "opponent_move"

ReportFollowsFire ==
    last'.op = "report" =>
        /\ last.op = "fire"
        /\ last'.board = last.board
        /\ last'.ret = last.ret

\* a turn starts only after the game_over check of the turn before it
\* answered false (or, for the first turn, after the last placement)
TurnStartsAfter(closing) ==
    /\ last'.op = "opponent_move" =>
          /\ last.op = closing
          /\ last.board = "computer"
          /\ last.op = "game_over" => last.ret = FALSE
    /\ last'.op = "render" =>
          \/ last.op = "place_ship"
          \/ /\ last.op = closing
             /\ last.board = "player"
             /\ last.op = "game_over" => last.ret = FALSE
    /\ last'.op = "user_input" =>
          \/ last.op = "render"
          \/ last.op = "user_input" /\ last.ret # "accepted"

(* C12, as claimed: within a turn the steps are, in order, obtain the
   coordinate, fire, report, check game_over on the board fired at, wait
   for the acknowledgment; only then does the other player's turn start. *)
C12_CheckThenAck ==
    [][/\ FireFollowsCoordinate
       /\ ReportFollowsFire
       /\ last'.op = "game_over" =>
             last.op = "report" /\ last'.board = last.board
       /\ last'.op = "ack" =>
             last.op = "game_over" /\ last'.board = last.board
       /\ TurnStartsAfter("ack")]_vars

(* C12, amended: within a turn the steps are, in order, obtain the
   coordinate, fire, report, wait for the acknowledgment, check game_over on
   the board fired at; only then does the other player's turn start. *)
C12_AckThenCheck ==
    [][/\ FireFollowsCoordinate
       /\ ReportFollowsFire
       /\ last'.op = "ack" =>
             last.op = "report" /\ last'.board = last.board
       /\ last'.op = "game_over" =>
             last.op = "ack" /\ last'.board = last.board
       /\ TurnStartsAfter("game_over")]_vars

\* a whole round has run: the opponent's turn has just ended with its check,
\* after a turn in which the player hit a ship
C12_Witness ==
    /\ pc = "render"
    /\ last.op = "game_over"
    /\ last.board = "player"
    /\ tally.checks = 1
    /\ CellsIn(computer_board, {"Hit"}) # {}

(* C13: the loop's fires alternate, on computer_board first and then on
   player_board; after each fire game_over is checked exactly once, on the
   board just fired at; and the loop stops at the first check that answers
   true: no fire on either board follows such a check, so the opponent does
   not move after the player's winning shot. *)
C13_AlternateCheckStop ==
    [][/\ last'.op = "fire" =>
             /\ last'.board # tally.fired_at
             /\ tally.fired_at = "none" => last'.board = "computer"
             /\ tally.fired_at # "none" => tally.checks = 1
             /\ won = "no"
       /\ last'.op = "game_over" =>
             /\ last'.board = tally.fired_at
             /\ tally.checks = 0
             /\ won = "no"
             /\ last'.ret = TRUE => pc' = "done"
             /\ last'.ret = FALSE => pc' # "done"
       /\ last'.op = "opponent_move" => won = "no"
       /\ won # "no" => pc = "done"
       /\ pc = "done" => UNCHANGED vars]_vars

\* the loop has stopped at the check after the player's winning shot, the
\* opponent having fired in earlier rounds
C13_Witness ==
    /\ pc = "done"
    /\ last.op = "game_over"
    /\ last.board = "computer"
    /\ last.ret = TRUE
    /\ tally.fired_at = "computer"
    /\ tally.checks = 1
    /\ CellsIn(player_board, {"Hit", "Miss"}) # {}

(* C14: an input line is rejected exactly when it is not two tokens around
   one comma, or a token is not a run of digits (blanks around it aside), or
   a coordinate is >= BOARD_SIZE; a rejected line makes user_input ask again
   without a call of fire: both boards and the turn stay as they are, and
   user_input is left only with an accepted, in-bounds position. *)
\* the token is a non-empty run of digits between blanks
IsNumberToken(t) ==
    \E i \in 1 .. Len(t) : \E j \in i .. Len(t) :
        /\ \A k \in 1 .. Len(t) :
               IF k \in i .. j THEN IsDigit(t[k]) ELSE IsWhitespace(t[k])

\* the number such a token writes
NumberOfToken(t) ==
    DigitsValue(SelectSeq(t, IsDigit), 0)

\* the line is two number tokens around its only comma, both on the board
LineIsAcceptable(line) ==
    LET commas == {k \in 1 .. Len(line) : line[k] = ","}
    IN  /\ Cardinality(commas) = 1
        /\ LET c     == CHOOSE k \in commas : TRUE
               left  == SubSeq(line, 1, c - 1)
               right == SubSeq(line, c + 1, Len(line))
           IN  /\ IsNumberToken(left)
               /\ IsNumberToken(right)
               /\ NumberOfToken(left) < BOARD_SIZE
               /\ NumberOfToken(right) < BOARD_SIZE

LinePosition(line) ==
    LET c == CHOOSE k \in 1 .. Len(line) : line[k] = ","
    IN  Position(NumberOfToken(SubSeq(line, 1, c - 1)),
                 NumberOfToken(SubSeq(line, c + 1, Len(line))))

\* user_input accepts exactly the acceptable lines, with their position
RejectionRule ==
    \A typed \in Inputs :
        LET line == read_line(typed)
            it   == user_input_iter(line)
        IN  /\ it.accepted = LineIsAcceptable(line)
            /\ it.accepted => it.position = LinePosition(line)

C14_RejectedInputStaysOut ==
    [][/\ RejectionRule
       /\ (last'.op = "user_input" /\ last'.ret # "accepted") =>
             /\ pc = "user_input" /\ pc' = "user_input"
             /\ player_board' = player_board
             /\ computer_board' = computer_board
             /\ shot' = shot
             /\ tally' = tally
       /\ (pc = "user_input" /\ pc' # "user_input") =>
             /\ last'.op = "user_input" /\ last'.ret = "accepted"
             /\ pc' = "player_fire"
             /\ shot' \in InBoundsPositions
             /\ player_board' = player_board
             /\ computer_board' = computer_board]_vars

\* in the middle of a game, user_input has just rejected a line whose
\* coordinates parse but lie off the board, and asks again
C14_Witness ==
    /\ pc = "user_input"
    /\ last.op = "user_input"
    /\ last.ret = "out_of_bounds"
    /\ tally.fired_at = "player"
    /\ \E typed \in Inputs : user_input_iter(read_line(typed)).why = "invalid"

(* C15: a Visible and a Hidden board driven by the same placement draws and
   the same fire positions have the same grid and the same ships in every
   state, every call returns the same on both, and neither board's
   visibility ever changes. *)
C15_VisibilityNoEffect ==
    /\ player_board.grid = computer_board.grid
    /\ player_board.ships = computer_board.ships
    /\ last.op \in {"place_ship", "fire", "game_over"} => last.ret = result
    /\ player_board.board_visibility = "Visible"
    /\ computer_board.board_visibility = "Hidden"

\* the same fire has answered Hit on both boards, which also hold a miss
C15_Witness ==
    /\ last.op = "fire"
    /\ last.board = "both"
    /\ last.ret = "Hit"
    /\ result = "Hit"
    /\ CellsIn(computer_board, {"Miss"}) # {}
    /\ player_board.board_visibility # computer_board.board_visibility

\* p and q share a side
Adjacent(p, q) ==
    \/ p.row = q.row /\ (p.column = q.column + 1 \/ q.column = p.column + 1)
    \/ p.column = q.column /\ (p.row = q.row + 1 \/ q.row = p.row + 1)

\* the positions a step appends to the ships of the board
Appended(before, after) ==
    {after.ships[k] : k \in (Len(before.ships) + 1) .. Len(after.ships)}

(* C16, as claimed: place_ship never commits a ship one of whose cells
   shares a side with a cell of a ship placed earlier on the board. *)
C16_NoAdjacentShips ==
    [][last'.op = "place_ship" =>
         \A p \in Appended(player_board, player_board') :
             \A q \in ShipSet(player_board) : ~Adjacent(p, q)]_vars

(* C16, amended: place_ship never commits a ship one of whose cells is a
   cell of a ship placed earlier on the board; sharing a side with one is
   not tested. *)
C16_NoOverlappingShips ==
    [][last'.op = "place_ship" =>
         /\ Appended(player_board, player_board') \cap ShipSet(player_board) = {}
         /\ Cardinality(Appended(player_board, player_board')) = last'.size
         /\ Cardinality(ShipSet(player_board'))
              = Cardinality(ShipSet(player_board)) + last'.size]_vars

\* a ship has just been placed side by side with an earlier one
C16_Witness ==
    /\ last.op = "place_ship"
    /\ LET placed  == Run(last.position, last.direction, last.size)
           earlier == ShipSet(player_board) \ placed
       IN  /\ Len(player_board.ships)
                = Cardinality(placed) + Cardinality(earlier)
           /\ \E p \in placed, q \in earlier : Adjacent(p, q)

\* the two boards of main, by name
Boards == [player |-> player_board, computer |-> computer_board]

(* C17: in main, a cell is Hit only at a position of ships and Miss only
   at a position outside ships; the Hit results fire has returned on a
   board are as many as its Hit cells, so at most one per ship cell and
   at most FleetCells per board; fire returns nothing but Hit or Miss. *)
C17_HitAndMissCells ==
    /\ \A n \in {"player", "computer"} :
          /\ CellsIn(Boards[n], {"Hit"}) \subseteq ShipSet(Boards[n])
          /\ CellsIn(Boards[n], {"Miss"}) \cap ShipSet(Boards[n]) = {}
          /\ tally.hits[n] = Cardinality(CellsIn(Boards[n], {"Hit"}))
          /\ tally.hits[n] <= FleetCells
    /\ last.op = "fire" => last.ret \in {"Hit", "Miss"}
    /\ result \in {"none", "Hit", "Miss"}

\* the game has ended with every ship cell of the computer Hit once, after
\* shots of both sides that hit and shots that missed
C17_Witness ==
    /\ pc = "done"
    /\ tally.hits.computer = FleetCells
    /\ CellsIn(computer_board, {"Miss"}) # {}
    /\ CellsIn(player_board, {"Hit"}) # {}
    /\ CellsIn(player_board, {"Miss"}) # {}

(* C18: game_over() is true on a board on which no ship has been placed,
   and false on a board with a position of ships whose cell is still
   Ship; when main fires for the first time it is false for both boards. *)
C18_GameOverBeforeFirstFire ==
    /\ \A n \in {"player", "computer"} :
          /\ Len(Boards[n].ships) = 0 => game_over(Boards[n])
          /\ (\E p \in ShipSet(Boards[n]) : Cell(Boards[n], p) = "Ship")
                => ~game_over(Boards[n])
    /\ (pc = "player_fire" /\ tally.fired_at = "none")
          => ~game_over(player_board) /\ ~game_over(computer_board)

\* main is about to fire for the first time, with both fleets placed
C18_Witness ==
    /\ pc = "player_fire"
    /\ tally.fired_at = "none"
    /\ Len(player_board.ships) = FleetCells
    /\ Len(computer_board.ships) = FleetCells
    /\ shot \in ShipSet(computer_board)

(* C19: once both fleets are placed, no state of the game loop has every
   ship cell Hit on both boards; when the loop has ended, game_over holds
   for exactly one of the two boards. *)
C19_ExactlyOneLoser ==
    /\ calls = 2 * MaxShips
          => ~(game_over(player_board) /\ game_over(computer_board))
    /\ pc = "done"
          => (game_over(player_board) # game_over(computer_board))

\* the loop has ended on the opponent's check: the player's fleet is sunk,
\* the computer's is not
C19_Witness ==
    /\ pc = "done"
    /\ last.op = "game_over"
    /\ last.board = "player"
    /\ game_over(player_board)
    /\ ~game_over(computer_board)
    /\ tally.hits.computer > 0

\* opponent_move has just drawn the position p
ChosenByOpponent(p) == pc = "opponent_fire" /\ shot = p

(* C20: with a human who always eventually supplies an accepted
   coordinate and the acknowledgment, if the opponent's draws give every
   in-bounds cell again and again then the game loop eventually ends with
   game_over true for one of the boards, whatever cells the human fires
   at: no run in which every cell keeps being drawn goes on for ever. *)
C20_GameLoopTerminates ==
    (\A p \in InBoundsPositions : []<>ChosenByOpponent(p))
        => <>(pc = "done"
              /\ (game_over(player_board) \/ game_over(computer_board)))

\* the loop has ended although the human fired at one and the same cell,
\* a miss, all game long
C20_Witness ==
    /\ pc = "done"
    /\ game_over(player_board)
    /\ Cardinality(CellsIn(computer_board, {"Miss"})) = 1
    /\ CellsIn(computer_board, {"Hit"}) = {}

====
